---------------------------- MODULE Spec2Model ----------------------------
(***************************************************************************)
(* Model of the ads user-model engine of browser-laptop:                   *)
(*   - app/common/state/userModelState.js (the behavioural state and its   *)
(*     gated accessors), and                                               *)
(*   - the engine (src/unnamed/part_000: event recording, ad selection,    *)
(*     the upload timer and the survey queue).                             *)
(*                                                                         *)
(* The application state is the record `state` = [settings, userModel];    *)
(* every handler of the code is a function state -> state, and is modelled *)
(* as an operator on records.  Handlers that also touch the module-level   *)
(* variables of the engine (the uuid generator, the timer handle, the set  *)
(* of armed timers) are operators on a "machine" record m that carries     *)
(* those beside the state.                                                 *)
(*                                                                         *)
(* Representation of absent (undefined) values:                            *)
(*   lists                  <<>>   (every getter defaults to an empty List)*)
(*   maps                   the function with the empty domain             *)
(*   uuids                  NoUuid (0)                                     *)
(*   times                  NoTime (-1)                                    *)
(*   strings                ""                                             *)
(*   flags                  "undefined" (beside "true" and "false")        *)
(***************************************************************************)
EXTENDS Integers, Sequences, FiniteSets, TLC

VARIABLES
  state,                    \* the Immutable application state: settings + userModel
  now,                      \* the wall clock, in seconds
  uuidSeq,                  \* how many uuids uuidv4() has produced so far
  testingP,                 \* part_000:604, fixed by the process environment
  initP,                    \* part_000:36
  foregroundP,              \* part_000:37
  matrixData,               \* part_000:39 (TRUE once loaded)
  priorData,                \* part_000:40 (TRUE once loaded)
  sampleAdFeed,             \* part_000:41 (<<>> while undefined, else <<bundle>>)
  lastSingleClassification, \* part_000:43
  collectActivityId,        \* part_000:602, the handle of the last timer armed
  timers,                   \* the armed timers that have not fired: [id, retryIn]
  pendingLoad,              \* a setImmediate callback of initialize is queued
  inflight,                 \* upload attempts whose onUserModelUploadLogs is due
  surveyGets,               \* survey downloads whose callback is due
  out,                      \* what the last handler run did: its log line, its notification
  pushed                    \* everything given to the ring buffer under test, per key

vars == << state, now, uuidSeq, testingP, initP, foregroundP, matrixData, priorData,
           sampleAdFeed, lastSingleClassification, collectActivityId, timers,
           pendingLoad, inflight, surveyGets, out, pushed >>

(***************************************************************************)
(* Program constants.                                                      *)
(***************************************************************************)
maxRowsInPageScoreHistory == 5
maxRowsInAdsShownHistory == 99
hourWindow == 3600
dayWindow == 86400

(***************************************************************************)
(* Bounds of the model.                                                    *)
(***************************************************************************)
MaxUuid == 3        \* uuidv4() is called at most this often
NumTimers == 2      \* timer handles that can be armed at once
MaxQueue == 2       \* events recorded into reportingEventQueue
MaxInflight == 1    \* upload attempts awaiting their callback
MaxGets == 1        \* survey downloads awaiting their callback
BigCap == 100       \* an ads-per-hour/day setting above the history's capacity
MaxOver == 2        \* how far over its capacity a ring buffer under test starts

NoUuid == 0
NoTime == 0 - 1

Min(a, b) == IF a < b THEN a ELSE b

Last(s) == s[Len(s)]

\* JavaScript truthiness of a flag
truthy(flag) == flag = "true"

(***************************************************************************)
(* userModelState.js                                                       *)
(***************************************************************************)

\* Immutable.Map(): the userModel record with every key absent
EmptyUserModel ==
  [ pageScoreHistory |-> <<>>, adsShownHistory |-> <<>>, adsUUIDSeen |-> <<>>,
    reportingEventQueue |-> <<>>, userSurveyQueue |-> <<>>, timingModel |-> <<>>,
    adUUID |-> NoUuid,
    searchActivity |-> "undefined", searchUrl |-> "", score |-> 0,
    lastSearchTime |-> NoTime,
    shopActivity |-> "undefined", shopUrl |-> "", lastShopTime |-> NoTime,
    purchaseTime |-> NoTime, purchaseUrl |-> "", purchaseActive |-> "undefined",
    url |-> "", updated |-> NoTime, pageClass |-> "",
    lastAdTime |-> NoTime, adServed |-> "", adClass |-> "",
    lastUserActivity |-> NoTime, lastUserIdleStopTime |-> NoTime,
    locale |-> "", locales |-> <<>>, available |-> "undefined",
    error |-> <<>>, currentSSID |-> "", places |-> <<>> ]

getAdEnabledValue(s) == s.settings.adsEnabled

\* urlUtil.isURL, as far as the inputs of the model go
isURL(url) == url \in {"https://amazon.com/p", "https://search.example/?q=", "https://news.example/"}

\* the loop of historyRespectsRollingTimeConstraint, from index i on
RECURSIVE recentCountFrom(_, _, _, _)
recentCountFrom(history, secondsWindow, t, i) ==
  IF i > Len(history) THEN 0
  ELSE (IF t - history[i] < secondsWindow THEN 1 ELSE 0)
       + recentCountFrom(history, secondsWindow, t, i + 1)

\* a variant that also counts an entry exactly secondsWindow old
historyRespectsInclusiveWindow(history, secondsWindow, allowableAdCount, t) ==
  LET recentCount == recentCountFrom(history, secondsWindow + 1, t, 1)
  IN  IF recentCount > allowableAdCount THEN FALSE ELSE TRUE

historyRespectsRollingTimeConstraint(history, secondsWindow, allowableAdCount, t) ==
  LET recentCount == recentCountFrom(history, secondsWindow, t, 1)
  IN  IF recentCount > allowableAdCount THEN FALSE ELSE TRUE

\* variants: a push that never evicts, a push that evicts one entry at most
ringPushNoEvict(previous, item, maxRows) == Append(previous, item)

ringPushEvictOne(previous, item, maxRows) ==
  LET ringbuf == Append(previous, item)
      n == Len(ringbuf)
  IN  IF n > maxRows THEN SubSeq(ringbuf, 2, n) ELSE ringbuf

\* previous.push(item), then slice(n - maxRows) when n > maxRows
ringPush(previous, item, maxRows) ==
  LET ringbuf == Append(previous, item)
      n == Len(ringbuf)
  IN  IF n > maxRows THEN SubSeq(ringbuf, (n - maxRows) + 1, n) ELSE ringbuf

appendToRingBufferUnderKey(s, key, item, maxRows) ==
  IF ~getAdEnabledValue(s) THEN s
  ELSE [s EXCEPT !.userModel[key] = ringPush(@, item, maxRows)]

getUserSurveyQueue(s) == s.userModel.userSurveyQueue

setUserSurveyQueue(s, queue) ==
  IF ~getAdEnabledValue(s) THEN s
  ELSE [s EXCEPT !.userModel.userSurveyQueue = queue]

getReportingEventQueue(s) == s.userModel.reportingEventQueue

setReportingEventQueue(s, queue) ==
  IF ~getAdEnabledValue(s) THEN s
  ELSE [s EXCEPT !.userModel.reportingEventQueue = queue]

setUserModelValue(s, key, value) ==
  IF key = "" \/ ~getAdEnabledValue(s) THEN s
  ELSE [s EXCEPT !.userModel[key] = value]

appendPageScoreToHistoryAndRotate(s, pageScore) ==
  appendToRingBufferUnderKey(s, "pageScoreHistory", pageScore, maxRowsInPageScoreHistory)

\* a variant that leaves the history as it is
appendAdShownNowhere(s, t) == s

appendAdShownToAdHistory(s, t) ==
  appendToRingBufferUnderKey(s, "adsShownHistory", t, maxRowsInAdsShownHistory)

getAdUUIDSeen(s) == s.userModel.adsUUIDSeen

\* a variant that takes no ad for seen
seenNever(seen, uuid) == FALSE

\* seen.get(uuid), truthy
seenGet(seen, uuid) == uuid \in DOMAIN seen /\ seen[uuid] = 1

recordAdUUIDSeen(s, uuid, value) ==
  IF ~getAdEnabledValue(s) THEN s
  ELSE LET seen == s.userModel.adsUUIDSeen
       IN  [s EXCEPT !.userModel.adsUUIDSeen =
              [u \in (DOMAIN seen) \cup {uuid} |-> IF u = uuid THEN value ELSE seen[u]]]

allowedToShowAdBasedOnHistory(s, t) ==
  LET history == s.userModel.adsShownHistory
      hourAllowed == s.settings.adsPerHour
      dayAllowed == s.settings.adsPerDay
      respectsHourLimit ==
        historyRespectsRollingTimeConstraint(history, hourWindow, hourAllowed, t)
      respectsDayLimit ==
        historyRespectsRollingTimeConstraint(history, dayWindow, dayAllowed, t)
  IN  IF ~respectsHourLimit \/ ~respectsDayLimit THEN FALSE ELSE TRUE

getPageScoreHistory(s) == s.userModel.pageScoreHistory

\* a variant that erases only while ads are enabled
stateRemoveAllHistoryIfEnabled(s) ==
  IF ~getAdEnabledValue(s) THEN s ELSE [s EXCEPT !.userModel = EmptyUserModel]

\* userModelState.removeAllHistory: does not look at settings.ADS_ENABLED
stateRemoveAllHistory(s) == [s EXCEPT !.userModel = EmptyUserModel]

flagSearchState(s, url, score, t) ==
  IF url = "" \/ ~isURL(url) \/ ~getAdEnabledValue(s) THEN s
  ELSE [s EXCEPT !.userModel.searchActivity = "true",
                 !.userModel.searchUrl = url,
                 !.userModel.score = score,
                 !.userModel.lastSearchTime = t]

unFlagSearchState(s, url, t) ==
  IF url = "" \/ ~isURL(url) \/ ~getAdEnabledValue(s) THEN s
  ELSE IF s.userModel.searchUrl = url THEN s
  ELSE [s EXCEPT !.userModel.searchActivity = "false",
                 !.userModel.lastSearchTime = t]

flagShoppingState(s, url, t) ==
  IF ~getAdEnabledValue(s) THEN s
  ELSE [s EXCEPT !.userModel.shopActivity = "true",
                 !.userModel.shopUrl = url,
                 !.userModel.lastShopTime = t]

getSearchState(s) == s.userModel.searchActivity

getShoppingState(s) == s.userModel.shopActivity

unFlagShoppingState(s) ==
  IF ~getAdEnabledValue(s) THEN s
  ELSE [s EXCEPT !.userModel.shopActivity = "false"]

flagUserBuyingSomething(s, url, t) ==
  IF ~getAdEnabledValue(s) THEN s
  ELSE [s EXCEPT !.userModel.purchaseTime = t,
                 !.userModel.purchaseUrl = url,
                 !.userModel.purchaseActive = "true"]

getUserBuyingState(s) == s.userModel.purchaseActive

getUserModelTimingMdl(s) == s.userModel.timingModel

setUserModelTimingMdl(s, model) ==
  IF ~getAdEnabledValue(s) THEN s
  ELSE [s EXCEPT !.userModel.timingModel = model]

setUrlActive(s, url) ==
  IF url = "" \/ ~isURL(url) \/ ~getAdEnabledValue(s) THEN s
  ELSE [s EXCEPT !.userModel.url = url]

setUrlClass(s, url, pageClass, t) ==
  IF url = "" \/ pageClass = "" \/ ~isURL(url) \/ ~getAdEnabledValue(s) THEN s
  ELSE [s EXCEPT !.userModel.updated = t,
                 !.userModel.url = url,
                 !.userModel.pageClass = pageClass]

setServedAd(s, adServed, adClass, t) ==
  IF adServed = "" \/ ~getAdEnabledValue(s) THEN s
  ELSE [s EXCEPT !.userModel.lastAdTime = t,
                 !.userModel.adServed = adServed,
                 !.userModel.adClass = adClass]

setLastUserActivity(s, t) ==
  IF ~getAdEnabledValue(s) THEN s
  ELSE [s EXCEPT !.userModel.lastUserActivity = t]

\* a variant that does not look at settings.ADS_ENABLED
setLocaleUngated(s, locale) == [s EXCEPT !.userModel.locale = locale]

setLocale(s, locale) ==
  IF ~getAdEnabledValue(s) THEN s
  ELSE [s EXCEPT !.userModel.locale = locale]

setLastUserIdleStopTime(s, t) ==
  IF ~getAdEnabledValue(s) THEN s
  ELSE [s EXCEPT !.userModel.lastUserIdleStopTime = t]

getLastUserIdleStopTime(s) == s.userModel.lastUserIdleStopTime

setUserModelError(s, error, caller) ==
  IF ~getAdEnabledValue(s) THEN s
  ELSE [s EXCEPT !.userModel.error = << caller, error >>]

getSSID(s) == s.userModel.currentSSID

getAdPlace(s) ==
  LET ssid == getSSID(s)
      places == s.userModel.places
  IN  IF ssid # "" /\ ssid \in DOMAIN places /\ places[ssid] # ""
      THEN places[ssid] ELSE "UNDISCLOSED"

setSSID(s, value) ==
  IF ~getAdEnabledValue(s) THEN s
  ELSE LET current == getSSID(s)
           v == IF value = "" THEN "unknown" ELSE value
           s1 == [s EXCEPT !.userModel.currentSSID = v]
       IN  IF current # v THEN [s1 EXCEPT !.settings.adsPlace = getAdPlace(s1)]
           ELSE s1

setAdPlace(s, place) ==
  IF ~getAdEnabledValue(s) THEN s
  ELSE LET ssid == getSSID(s)
           places == s.userModel.places
       IN  IF ssid # ""
           THEN [s EXCEPT !.userModel.places =
                   [k \in (DOMAIN places) \cup {ssid} |-> IF k = ssid THEN place ELSE places[k]]]
           ELSE s

getAdUUID(s) == s.userModel.adUUID

setAdUUID(s, uuid) ==
  IF ~getAdEnabledValue(s) THEN s
  ELSE [s EXCEPT !.userModel.adUUID = uuid]

appendToUserSurveyQueue(s, survey) ==
  setUserSurveyQueue(s, Append(getUserSurveyQueue(s), survey))

appendToReportingEventQueue(s, event) ==
  setReportingEventQueue(s, Append(getReportingEventQueue(s), event))

flushReportingEventQueue(s) == setReportingEventQueue(s, <<>>)

(***************************************************************************)
(* The engine (src/unnamed/part_000).                                      *)
(***************************************************************************)

\* priorData.names, each name split at '-'
CatNames == << << "sports", "rugby", "worldcup" >>, << "tech", "ai" >>,
               << "food" >>, << "news" >> >>

AdA == [uuid |-> "A", notificationText |-> "text a", notificationURL |-> "https://a.example/",
        advertiser |-> "a"]
AdB == [uuid |-> "B", notificationText |-> "text b", notificationURL |-> "https://b.example/",
        advertiser |-> "b"]
\* an ad with incomplete information
AdC == [uuid |-> "C", notificationText |-> "text c", notificationURL |-> "https://c.example/",
        advertiser |-> ""]

\* um.getSampleAdFeed(): the catalog, keyed by category prefix
SampleAdFeed ==
  [categories |->
     [k \in { << "sports" >>, << "tech", "ai" >>, << "tech" >>, << "news" >> } |->
        CASE k = << "sports" >> -> << AdA, AdB >>
          [] k = << "tech", "ai" >> -> << AdC >>
          [] k = << "tech" >> -> << AdA >>
          [] OTHER -> << >>]]

\* a catalog with a category, its parent, and a parent without its child
HierFeed ==
  [categories |->
     [k \in { << "sports", "rugby" >>, << "sports" >>, << "tech" >> } |->
        CASE k = << "sports", "rugby" >> -> << AdB >>
          [] k = << "sports" >> -> << AdA >>
          [] OTHER -> << AdA, AdB >>]]

\* a catalog whose only category has no ads
EmptyBucketFeed == [categories |-> [k \in { << "sports" >> } |-> << >>]]

\* a catalog of one ad
SingleAdFeed == [categories |-> [k \in { << "sports" >> } |-> << AdA >>]]

\* a page score with all the weight on category i
OneHot(i) == [j \in 1..Len(CatNames) |-> IF j = i THEN 1 ELSE 0]

\* um.vectorIndexOfMax: the first index of the maximum, 0 for an empty vector
vectorIndexOfMax(v) ==
  IF Len(v) = 0 THEN 0
  ELSE CHOOSE i \in 1..Len(v) :
         /\ \A j \in 1..Len(v) : v[j] <= v[i]
         /\ \A j \in 1..(i - 1) : v[j] < v[i]

\* um.deriveCategoryScores: the scores of the history added up per category
RECURSIVE sumAt(_, _, _)
sumAt(history, j, i) ==
  IF i > Len(history) THEN 0 ELSE history[i][j] + sumAt(history, j, i + 1)

deriveCategoryScores(history) ==
  IF Len(history) = 0 THEN << >>
  ELSE [j \in 1..Len(CatNames) |-> sumAt(history, j, 1)]

oneDay == (IF testingP THEN 600 ELSE 86400) * 1000
oneHour == (IF testingP THEN 25 ELSE 3600) * 1000

\* part_000:45
noop(s) == ~matrixData \/ ~priorData \/ ~getAdEnabledValue(s)

\* the part of the engine that a handler changes beside the clock and the flags
Machine == [state |-> state, uuidSeq |-> uuidSeq,
            collectActivityId |-> collectActivityId, timers |-> timers,
            inflight |-> inflight, surveyGets |-> surveyGets]

\* uuidv4(): a value never produced before
uuidv4(m) == m.uuidSeq + 1

\* setTimeout(appActions.onUserModelCollectActivity, retryIn): a new handle
setTimeout(m, retryIn) ==
  LET used == { tm.id : tm \in m.timers } \cup { m.collectActivityId }
      id == CHOOSE i \in 1..(Cardinality(used) + 1) :
              i \notin used /\ \A j \in 1..(i - 1) : j \in used
  IN  [m EXCEPT !.timers = @ \cup { [id |-> id, retryIn |-> retryIn] },
                !.collectActivityId = id]

\* clearTimeout(handle): no effect on a timer that has fired
clearTimeout(m, handle) ==
  [m EXCEPT !.timers = { tm \in @ : tm.id # handle }]

(* ----- generateAdReportingEvent ----- *)

\* a variant that takes an ignored notification for a clicked one
translateIgnoredAsClicked(result) ==
  CASE result = "clicked" -> "clicked"
    [] result = "closed" -> "dismissed"
    [] result = "ignored" -> "clicked"
    [] OTHER -> result

\* a variant that takes a closed notification for one that timed out
translateClosedAsTimeout(result) ==
  CASE result = "clicked" -> "clicked"
    [] result = "closed" -> "timeout"
    [] result = "ignored" -> "timeout"
    [] OTHER -> result

translate(result) ==
  CASE result = "clicked" -> "clicked"
    [] result = "closed" -> "dismissed"
    [] result = "ignored" -> "timeout"
    [] OTHER -> result

BlankEvent(type, stamp) ==
  [type |-> type, stamp |-> stamp, uuid |-> NoUuid,
   notificationType |-> "", notificationClassification |-> << >>,
   notificationCatalog |-> "", notificationUrl |-> "", notificationId |-> "",
   tabId |-> "", tabType |-> "", tabUrl |-> "", tabClassification |-> << >>,
   settings |-> << >>, place |-> ""]

startsWithHttp(url) == url \in {"https://amazon.com/p", "https://search.example/?q=",
                                "https://news.example/"}

SettingsKeys == {"adsEnabled", "adsLocale", "adsPerDay", "adsPerHour", "adsOperatingMode"}

\* the record generateAdReportingEvent builds, in a one-element sequence;
\* << >> where the code returns before the queue is looked at
eventMap(s, a, t) ==
  LET map == BlankEvent(a.eventType, t)
  IN  CASE a.eventType = "notify" ->
             (CASE a.eventName = "AD_SHOWN" ->
                     << [map EXCEPT !.notificationType = "generated",
                                    !.notificationClassification = a.hierarchy,
                                    !.notificationCatalog = "unspecified-catalog",
                                    !.notificationUrl = a.url,
                                    !.notificationId = a.uuid] >>
                [] a.eventName = "NOTIFICATION_RESULT" ->
                     << [map EXCEPT !.notificationType = translate(a.result),
                                    !.notificationId = a.uuid] >>
                [] OTHER -> << >>)
        [] a.eventType = "load" ->
             IF ~a.tabValue \/ a.incognito THEN << >>
             ELSE IF ~startsWithHttp(a.url) THEN << >>
             ELSE << [map EXCEPT !.tabId = a.tabId,
                                 !.tabType = IF truthy(getSearchState(s)) THEN "search"
                                             ELSE "click",
                                 !.tabUrl = a.url,
                                 !.tabClassification = lastSingleClassification] >>
        [] a.eventType = "blur" -> << [map EXCEPT !.tabId = a.tabId] >>
        [] a.eventType = "focus" -> << [map EXCEPT !.tabId = a.tabId] >>
        [] a.eventType = "settings" ->
             IF a.key \notin SettingsKeys THEN << >>
             ELSE << [map EXCEPT !.settings =
                        << IF a.key = "adsLocale" THEN a.value ELSE s.settings.adsLocale,
                           IF a.key = "adsPerDay" THEN a.value ELSE s.settings.adsPerDay,
                           IF a.key = "adsPerHour" THEN a.value ELSE s.settings.adsPerHour,
                           IF (IF a.key = "adsOperatingMode" THEN a.value
                               ELSE s.settings.adsOperatingMode) = TRUE
                           THEN "B" ELSE "A" >>] >>
        [] OTHER -> << [map EXCEPT !.place = getAdPlace(s)] >>

\* variants: one that never looks at the queue's last record, one that takes
\* a record of the same type as the last for a repeat of it
generateAdReportingEventNoDedup(s, a, t) ==
  IF noop(s) THEN s
  ELSE LET built == eventMap(s, a, t)
           marked == /\ a.eventType = "notify"
                     /\ a.eventName = "NOTIFICATION_RESULT"
                     /\ translate(a.result) \in {"clicked", "dismissed"}
           s1 == IF marked THEN recordAdUUIDSeen(s, a.uuid, 1) ELSE s
       IN  IF built = << >> THEN s
           ELSE appendToReportingEventQueue(s1, built[1])

generateAdReportingEventSameType(s, a, t) ==
  IF noop(s) THEN s
  ELSE LET built == eventMap(s, a, t)
           marked == /\ a.eventType = "notify"
                     /\ a.eventName = "NOTIFICATION_RESULT"
                     /\ translate(a.result) \in {"clicked", "dismissed"}
           s1 == IF marked THEN recordAdUUIDSeen(s, a.uuid, 1) ELSE s
           q == getReportingEventQueue(s1)
       IN  IF built = << >> THEN s
           ELSE IF Len(q) > 0 /\ Last(q).type = built[1].type
                THEN s1
                ELSE appendToReportingEventQueue(s1, built[1])

generateAdReportingEvent(s, a, t) ==
  IF noop(s) THEN s
  ELSE LET built == eventMap(s, a, t)
           marked == /\ a.eventType = "notify"
                     /\ a.eventName = "NOTIFICATION_RESULT"
                     /\ translate(a.result) \in {"clicked", "dismissed"}
           s1 == IF marked THEN recordAdUUIDSeen(s, a.uuid, 1) ELSE s
           q == getReportingEventQueue(s1)
       IN  IF built = << >> THEN s
           ELSE IF Len(q) > 0 /\ [Last(q) EXCEPT !.stamp = built[1].stamp] = built[1]
                THEN s1
                ELSE appendToReportingEventQueue(s1, built[1])

(* ----- initialize, erasure, the profile's uuid ----- *)

processLocales(s, result) ==
  IF Len(result) = 0 THEN s ELSE setUserModelValue(s, "locales", result)

generateAndSetAdUUIDRegardless(m) ==
  [m EXCEPT !.state = setAdUUID(@, uuidv4(m)), !.uuidSeq = @ + 1]

\* a variant that does not look at the uuid the profile has
generateAndSetAdUUIDAlways(m) == generateAndSetAdUUIDRegardless(m)

generateAndSetAdUUIDButOnlyIfDNE(m) ==
  IF getAdUUID(m.state) = NoUuid THEN generateAndSetAdUUIDRegardless(m) ELSE m

collectActivityAsNeeded(m, adEnabled) ==
  IF ~adEnabled
  THEN IF m.collectActivityId # 0
       THEN [clearTimeout(m, m.collectActivityId) EXCEPT !.collectActivityId = 0]
       ELSE m
  ELSE IF m.collectActivityId # 0 THEN m
  ELSE LET q == getReportingEventQueue(m.state)
           retryIn == IF Len(q) > 0
                      THEN Min((now - Last(q).stamp) * 1000, oneHour)
                      ELSE oneHour
       IN  setTimeout(m, retryIn)

confirmAdUUIDIfAdEnabled(m) ==
  LET adEnabled == getAdEnabledValue(m.state)
      m1 == IF adEnabled THEN generateAndSetAdUUIDButOnlyIfDNE(m) ELSE m
  IN  collectActivityAsNeeded(m1, adEnabled)

initialize(m, available, locales) ==
  LET s1 == setUserModelValue(m.state, "available", IF available THEN "true" ELSE "false")
      s2 == processLocales(s1, locales)
  IN  confirmAdUUIDIfAdEnabled([m EXCEPT !.state = s2])

removeHistorySite(m) == [m EXCEPT !.state = stateRemoveAllHistory(@)]

removeAllHistory(m) ==
  confirmAdUUIDIfAdEnabled([m EXCEPT !.state = stateRemoveAllHistory(@)])

(* ----- classifyPage ----- *)

\* a: [headers, enoughWords, pageScore]; pageScore is what um.NBWordVec returns
classifyPage(s, a) ==
  IF noop(s) THEN s
  ELSE IF ~a.headers THEN s
  ELSE IF ~a.enoughWords THEN s
  ELSE appendPageScoreToHistoryAndRotate(s, a.pageScore)

\* catNames[immediateMax].split('-')
immediateWinner(a) == CatNames[vectorIndexOfMax(a.pageScore)]

(* ----- checkReadyAdServe ----- *)

\* a variant that takes the last available survey of the queue
findAvailableLast(surveys) ==
  IF \E i \in 1..Len(surveys) : surveys[i].status = "available"
  THEN CHOOSE i \in 1..Len(surveys) :
         /\ surveys[i].status = "available"
         /\ \A j \in (i + 1)..Len(surveys) : surveys[j].status # "available"
  ELSE 0

\* underscore.findWhere(surveys, { status: 'available' }): its index, 0 for none
findAvailable(surveys) ==
  IF \E i \in 1..Len(surveys) : surveys[i].status = "available"
  THEN CHOOSE i \in 1..Len(surveys) :
         /\ surveys[i].status = "available"
         /\ \A j \in 1..(i - 1) : surveys[j].status # "available"
  ELSE 0

\* a variant that settles for the shortest prefix that is a key of the bundle
RECURSIVE firstLevelShortest(_, _, _)
firstLevelShortest(bundle, hierarchy, level) ==
  IF level >= Len(hierarchy) THEN level
  ELSE IF SubSeq(hierarchy, 1, level + 1) \in DOMAIN bundle.categories
       THEN Len(hierarchy) - (level + 1)
       ELSE firstLevelShortest(bundle, hierarchy, level + 1)

\* the loop over hierarchy: the level of the first prefix that is a key of the
\* bundle, Len(hierarchy) when none is
RECURSIVE firstLevel(_, _, _)
firstLevel(bundle, hierarchy, level) ==
  IF level >= Len(hierarchy) THEN level
  ELSE IF SubSeq(hierarchy, 1, Len(hierarchy) - level) \in DOMAIN bundle.categories
       THEN level
       ELSE firstLevel(bundle, hierarchy, level + 1)

\* the "unmark all" loop
RECURSIVE unmarkAll(_, _, _)
unmarkAll(s, result, i) ==
  IF i > Len(result) THEN s
  ELSE unmarkAll(recordAdUUIDSeen(s, result[i].uuid, 0), result, i + 1)

\* randomKey: keys[keys.length * Math.random() << 0], with Math.random() = r / 2;
\* 0 stands for undefined (no key)
randomKey(pool, r) == IF Len(pool) = 0 THEN 0 ELSE ((Len(pool) * r) \div 2) + 1

Result(s, log, notify, id) == [state |-> s, log |-> log, notify |-> notify, id |-> id]

\* the part of checkReadyAdServe after the catalog is known to be there
selectAd(s, t, r, bundle) ==
  LET history == getPageScoreHistory(s)
      scores == deriveCategoryScores(history)
      indexOfMax == vectorIndexOfMax(scores)
  IN  IF indexOfMax = 0
      THEN Result(s, "Ad not served: no category at offset indexOfMax", "none", "")
      ELSE
      LET hierarchy == CatNames[indexOfMax]
          level == firstLevel(bundle, hierarchy, 0)
      IN  IF level >= Len(hierarchy)
          THEN Result(s, "Ad not served: no ads for category", "none", "")
          ELSE
          LET result == bundle.categories[SubSeq(hierarchy, 1, Len(hierarchy) - level)]
              seen == getAdUUIDSeen(s)
              adsSeen == SelectSeq(result, LAMBDA x : seenGet(seen, x.uuid))
              adsNotSeen == SelectSeq(result, LAMBDA x : ~seenGet(seen, x.uuid))
              allSeen == Len(adsNotSeen) <= 0
              s1 == IF allSeen THEN unmarkAll(s, result, 1) ELSE s
              pool == IF allSeen THEN adsSeen ELSE adsNotSeen
              arbitraryKey == randomKey(pool, r)
          IN  IF arbitraryKey = 0
              THEN Result(s1, "Ad not served: no ad for winnerOverTime", "none", "")
              ELSE
              LET payload == pool[arbitraryKey]
              IN  IF payload.notificationText = "" \/ payload.notificationURL = ""
                     \/ payload.advertiser = ""
                  THEN Result(s1, "Ad not served: incomplete ad information", "none", "")
                  ELSE Result(appendAdShownToAdHistory(s1, t), "AD_SHOWN", "ad",
                              payload.uuid)

\* a variant that looks for a survey before it asks the rate limiter
checkReadyAdServeSurveyFirst(s, t, r) ==
  IF noop(s) THEN Result(s, "", "none", "")
  ELSE IF ~foregroundP
  THEN Result(s, "Ad not served: not in foreground", "none", "")
  ELSE
  LET surveys == getUserSurveyQueue(s)
      i == findAvailable(surveys)
  IN  IF i # 0
      THEN Result(setUserSurveyQueue(s, [surveys EXCEPT ![i].status = "display",
                                                        ![i].status_at = t]),
                  "SURVEY_SHOWN", "survey", surveys[i].id)
      ELSE IF ~allowedToShowAdBasedOnHistory(s, t)
      THEN Result(s, "Ad not served: not allowed based on history", "none", "")
      ELSE IF Len(sampleAdFeed) = 0
      THEN Result(s, "Ad not served: no ad catalog", "none", "")
      ELSE selectAd(s, t, r, sampleAdFeed[1])

checkReadyAdServe(s, t, r) ==
  IF noop(s) THEN Result(s, "", "none", "")
  ELSE IF ~foregroundP
  THEN Result(s, "Ad not served: not in foreground", "none", "")
  ELSE IF ~allowedToShowAdBasedOnHistory(s, t)
  THEN Result(s, "Ad not served: not allowed based on history", "none", "")
  ELSE
  LET surveys == getUserSurveyQueue(s)
      i == findAvailable(surveys)
  IN  IF i # 0
      THEN Result(setUserSurveyQueue(s, [surveys EXCEPT ![i].status = "display",
                                                        ![i].status_at = t]),
                  "SURVEY_SHOWN", "survey", surveys[i].id)
      ELSE IF Len(sampleAdFeed) = 0
      THEN Result(s, "Ad not served: no ad catalog", "none", "")
      ELSE selectAd(s, t, r, sampleAdFeed[1])

(* ----- the upload timer ----- *)

\* a: an upload attempt, as onUserModelUploadLogs will be told of it
Attempt(net, stamp, path, events) ==
  [net |-> net, stamp |-> stamp, path |-> path, events |-> events]

collectActivity(m) ==
  IF noop(m.state) THEN m
  ELSE
  LET path == getAdUUID(m.state)
      events == getReportingEventQueue(m.state)
  IN  IF Len(events) = 0
      THEN [m EXCEPT !.inflight = Append(@, Attempt(FALSE, NoTime, path, events))]
      ELSE
      LET mark == Last(events)
          tagged == [events EXCEPT ![Len(events)].uuid = uuidv4(m)]
      IN  IF mark.uuid = NoUuid
          THEN [m EXCEPT !.state = setReportingEventQueue(@, tagged),
                         !.uuidSeq = @ + 1,
                         !.inflight = Append(@, Attempt(TRUE, mark.stamp, path, tagged))]
          ELSE [m EXCEPT !.inflight = Append(@, Attempt(TRUE, mark.stamp, path, events))]

\* a variant that keeps the event at the watermark
uploadLogsInclusive(m, stamp, retryIn) ==
  IF noop(m.state) THEN m
  ELSE
  LET events == getReportingEventQueue(m.state)
      data == SelectSeq(events, LAMBDA entry : entry.stamp >= stamp)
      m1 == IF stamp # NoTime
            THEN [m EXCEPT !.state = setReportingEventQueue(@, data)]
            ELSE m
      m2 == IF m1.collectActivityId # 0 THEN setTimeout(m1, retryIn) ELSE m1
  IN  [m2 EXCEPT !.surveyGets = @ + 1]

\* stamp is NoTime where the code passes null
uploadLogs(m, stamp, retryIn) ==
  IF noop(m.state) THEN m
  ELSE
  LET events == getReportingEventQueue(m.state)
      data == SelectSeq(events, LAMBDA entry : entry.stamp > stamp)
      m1 == IF stamp # NoTime
            THEN [m EXCEPT !.state = setReportingEventQueue(@, data)]
            ELSE m
      m2 == IF m1.collectActivityId # 0 THEN setTimeout(m1, retryIn) ELSE m1
  IN  [m2 EXCEPT !.surveyGets = @ + 1]

(* ----- downloadSurveys ----- *)

\* survey.id, read as a property of an Immutable.Map: the entries of a Map are
\* behind get(), so the property is undefined whatever the Map holds
dotId(survey) == "undefined"

downloadSurveys(s, surveys) ==
  IF noop(s) THEN s
  ELSE
  LET available == SelectSeq(surveys, LAMBDA survey : survey.status = "available")
      queue == getUserSurveyQueue(s)
      kept == SelectSeq(available, LAMBDA survey :
                ~\E i \in 1..Len(queue) :
                    dotId(survey) = dotId(queue[i]) /\ queue[i].status # "available")
  IN  setUserSurveyQueue(s, IF testingP THEN kept ELSE available)

tabUpdate(s, t) == setLastUserActivity(s, t)

recordUnIdle(s, t) == setLastUserIdleStopTime(s, t)

(***************************************************************************)
(* The state machine: one action per handler.  Every action leaves in      *)
(* `out` what the handler did beside changing the state: its name, its     *)
(* argument, its log line, the notification it surfaced.  The steps of the *)
(* environment (the settings store, the focus of the window, the loading   *)
(* of the classifier's data) leave the name "env"; the clock leaves `out`  *)
(* as it is.                                                               *)
(***************************************************************************)

Out(op, arg, log, notify, id) ==
  [op |-> op, arg |-> arg, log |-> log, notify |-> notify, id |-> id]

Quiet(op) == Out(op, << >>, "", "none", "")

\* the model's bounds, as guards on what a handler leaves behind; `attempts`
\* is the number of upload attempts that may await their callback
WithinUpTo(m, attempts) ==
  /\ m.uuidSeq <= MaxUuid
  /\ Cardinality(m.timers) <= NumTimers
  /\ Len(getReportingEventQueue(m.state)) <= MaxQueue
  /\ Len(m.inflight) <= attempts
  /\ m.surveyGets <= MaxGets

Within(m) == WithinUpTo(m, MaxInflight)

ApplyUpTo(m, attempts) ==
  /\ WithinUpTo(m, attempts)
  /\ state' = m.state
  /\ uuidSeq' = m.uuidSeq
  /\ collectActivityId' = m.collectActivityId
  /\ timers' = m.timers
  /\ inflight' = m.inflight
  /\ surveyGets' = m.surveyGets

Apply(m) == ApplyUpTo(m, MaxInflight)

Globals == << testingP, initP, foregroundP, matrixData, priorData, sampleAdFeed,
              lastSingleClassification, pendingLoad, pushed >>

InitialSettings(enabled, perHour, perDay) ==
  [adsEnabled |-> enabled, adsPerHour |-> perHour, adsPerDay |-> perDay,
   adsPlace |-> "", adsLocale |-> "en", adsOperatingMode |-> FALSE]

\* the engine as the module loads, before initialize has run
Boot(testingSet) ==
  /\ now = 0
  /\ uuidSeq = 0
  /\ testingP \in testingSet
  /\ initP = FALSE
  /\ foregroundP = FALSE
  /\ matrixData = FALSE
  /\ priorData = FALSE
  /\ sampleAdFeed = << >>
  /\ lastSingleClassification = << >>
  /\ collectActivityId = 0
  /\ timers = {}
  /\ pendingLoad = FALSE
  /\ inflight = << >>
  /\ surveyGets = 0
  /\ out = Quiet("start")

\* a fresh profile
InitWith(enabledSet, hourCaps, dayCaps, testingSet) ==
  /\ \E e \in enabledSet, h \in hourCaps, d \in dayCaps :
       state = [settings |-> InitialSettings(e, h, d), userModel |-> EmptyUserModel]
  /\ Boot(testingSet)
  /\ pushed = [key |-> "", cap |-> 0, start |-> 0, items |-> << >>]

\* the clock moves on to a later instant
Tick(instants) ==
  /\ \E t \in instants : t > now /\ now' = t
  /\ UNCHANGED << state, uuidSeq, collectActivityId, timers, inflight, surveyGets, Globals,
                  out >>

\* the user changes settings.ADS_ENABLED (the settings store is not the engine's)
ChangeSetting ==
  /\ state' = [state EXCEPT !.settings.adsEnabled = ~@]
  /\ out' = Quiet("env")
  /\ UNCHANGED << now, uuidSeq, collectActivityId, timers, inflight, surveyGets, Globals >>

Initialize(adArgs, availables) ==
  \E adEnabled \in adArgs, available \in availables :
    /\ IF adEnabled = FALSE \/ initP
       THEN UNCHANGED << state, uuidSeq, collectActivityId, timers, inflight, surveyGets,
                         initP, pendingLoad >>
       ELSE /\ initP' = TRUE
            /\ pendingLoad' = TRUE
            /\ Apply(initialize(Machine, available, << "en" >>))
    /\ out' = Quiet("initialize")
    /\ UNCHANGED << now, testingP, foregroundP, matrixData, priorData, sampleAdFeed,
                    lastSingleClassification, pushed >>

\* the setImmediate callback of initialize
LoadData(feeds) ==
  /\ pendingLoad
  /\ pendingLoad' = FALSE
  /\ matrixData' = TRUE
  /\ priorData' = TRUE
  /\ sampleAdFeed' \in feeds
  /\ out' = Quiet("env")
  /\ UNCHANGED << state, now, uuidSeq, collectActivityId, timers, inflight, surveyGets,
                  testingP, initP, foregroundP, lastSingleClassification, pushed >>

AppFocused ==
  /\ \E focusP \in BOOLEAN : foregroundP' = focusP
  /\ out' = Quiet("env")
  /\ UNCHANGED << state, now, uuidSeq, collectActivityId, timers, inflight, surveyGets,
                  testingP, initP, matrixData, priorData, sampleAdFeed,
                  lastSingleClassification, pendingLoad, pushed >>

TabUpdate ==
  /\ state' = tabUpdate(state, now)
  /\ out' = Quiet("tabUpdate")
  /\ UNCHANGED << now, uuidSeq, collectActivityId, timers, inflight, surveyGets, Globals >>

RecordUnIdle ==
  /\ state' = recordUnIdle(state, now)
  /\ out' = Quiet("recordUnIdle")
  /\ UNCHANGED << now, uuidSeq, collectActivityId, timers, inflight, surveyGets, Globals >>

RemoveHistorySite ==
  /\ Apply(removeHistorySite(Machine))
  /\ out' = Quiet("removeHistorySite")
  /\ UNCHANGED << now, Globals >>

RemoveAllHistory ==
  /\ Apply(removeAllHistory(Machine))
  /\ out' = Quiet("removeAllHistory")
  /\ UNCHANGED << now, Globals >>

ConfirmAdUUIDIfAdEnabled ==
  /\ Apply(confirmAdUUIDIfAdEnabled(Machine))
  /\ out' = Quiet("confirmAdUUIDIfAdEnabled")
  /\ UNCHANGED << now, Globals >>

GenerateAdReportingEvent(inputs) ==
  \E a \in inputs :
    /\ Apply([Machine EXCEPT !.state = generateAdReportingEvent(state, a, now)])
    /\ out' = Out("generateAdReportingEvent", a,
                  IF getReportingEventQueue(state') # getReportingEventQueue(state)
                  THEN "Event logged" ELSE "", "none", "")
    /\ UNCHANGED << now, Globals >>

ClassifyPage(inputs) ==
  \E a \in inputs :
    /\ state' = classifyPage(state, a)
    /\ lastSingleClassification' =
         IF noop(state) \/ ~a.headers \/ ~a.enoughWords THEN lastSingleClassification
         ELSE immediateWinner(a)
    /\ out' = Out("classifyPage", a, "", "none", "")
    /\ UNCHANGED << now, uuidSeq, collectActivityId, timers, inflight, surveyGets,
                    testingP, initP, foregroundP, matrixData, priorData, sampleAdFeed,
                    pendingLoad, pushed >>

\* a survey's notification takes its uuid from generateAdUUIDString()
\* with `track`, `pushed` keeps the ids of the ads and surveys shown, in order
Serve(track) ==
  \E r \in {0, 1} :
    LET res == checkReadyAdServe(state, now, r)
    IN  /\ state' = res.state
        /\ uuidSeq' = IF res.notify = "survey" THEN uuidv4(Machine) ELSE uuidSeq
        /\ uuidSeq' <= MaxUuid
        /\ out' = Out("checkReadyAdServe",
                      [shown |-> Len(state.userModel.adsShownHistory)],
                      res.log, res.notify, res.id)
        /\ pushed' = IF track /\ res.notify # "none"
                     THEN [pushed EXCEPT !.items = Append(@, res.id)]
                     ELSE pushed
        /\ UNCHANGED << now, collectActivityId, timers, inflight, surveyGets,
                        testingP, initP, foregroundP, matrixData, priorData,
                        sampleAdFeed, lastSingleClassification, pendingLoad >>

CheckReadyAdServe == Serve(FALSE)

CheckReadyAdServeTracked == Serve(TRUE)

\* an armed timer fires: appActions.onUserModelCollectActivity
CollectActivityUpTo(attempts) ==
  \E tm \in timers :
    /\ ApplyUpTo(collectActivity([Machine EXCEPT !.timers = @ \ {tm}]), attempts)
    /\ out' = Out("collectActivity", tm, "", "none", "")
    /\ UNCHANGED << now, Globals >>

CollectActivity == CollectActivityUpTo(MaxInflight)

\* a variant that keeps the watermark on every failure
OutcomesKeepStamp(a) ==
  IF a.net
  THEN { [err |-> FALSE, status |-> 200, stamp |-> a.stamp, retryIn |-> oneDay],
         [err |-> TRUE, status |-> 400, stamp |-> a.stamp, retryIn |-> oneHour],
         [err |-> TRUE, status |-> 500, stamp |-> a.stamp, retryIn |-> oneHour] }
  ELSE { [err |-> FALSE, status |-> 0, stamp |-> NoTime, retryIn |-> oneDay] }

\* the outcomes of an upload attempt: what onUserModelUploadLogs is called with
Outcomes(a) ==
  IF a.net
  THEN { [err |-> FALSE, status |-> 200, stamp |-> a.stamp, retryIn |-> oneDay],
         [err |-> TRUE, status |-> 400, stamp |-> a.stamp, retryIn |-> oneHour],
         [err |-> TRUE, status |-> 500, stamp |-> NoTime, retryIn |-> oneHour] }
  ELSE { [err |-> FALSE, status |-> 0, stamp |-> NoTime, retryIn |-> oneDay] }

\* the callback of an upload attempt: appActions.onUserModelUploadLogs
UploadLogs ==
  \E i \in 1..Len(inflight) : \E o \in Outcomes(inflight[i]) :
    LET rest == SubSeq(inflight, 1, i - 1) \o SubSeq(inflight, i + 1, Len(inflight))
    IN  /\ Apply(uploadLogs([Machine EXCEPT !.inflight = rest], o.stamp, o.retryIn))
        /\ out' = Out("uploadLogs", [attempt |-> inflight[i], outcome |-> o], "", "none", "")
        /\ UNCHANGED << now, Globals >>

\* the callback of a survey download: err, or appActions.onUserModelDownloadSurveys
DownloadSurveys(feeds) ==
  /\ surveyGets > 0
  /\ surveyGets' = surveyGets - 1
  /\ \/ /\ UNCHANGED state
        /\ out' = Out("surveyDownloadFailed", << >>, "Survey download failed", "none", "")
     \/ \E surveys \in feeds :
          /\ state' = downloadSurveys(state, surveys)
          /\ out' = Out("downloadSurveys", surveys, "", "none", "")
  /\ UNCHANGED << now, uuidSeq, collectActivityId, timers, inflight, Globals >>

(***************************************************************************)
(* Inputs.                                                                 *)
(***************************************************************************)

\* the instants the clock visits: both sides of the hour and of the day
Instants == {0, 1, 3599, 3600, 3601, 86399, 86400, 86401}

Page(i) == [headers |-> TRUE, enoughWords |-> TRUE, pageScore |-> OneHot(i)]

\* a page of the category sports-rugby-worldcup, and pages that are not classified
SportsPages == { Page(1),
                 [headers |-> FALSE, enoughWords |-> TRUE, pageScore |-> OneHot(1)],
                 [headers |-> TRUE, enoughWords |-> FALSE, pageScore |-> OneHot(1)] }

AllPages == { Page(i) : i \in 1..Len(CatNames) }

(***************************************************************************)
(* The ad-serving cycle under small caps: page classification, the rate    *)
(* limiter and ad selection, with the clock crossing both windows.  No     *)
(* history is erased and the caps stay as the profile starts with them.    *)
(***************************************************************************)
InitAds == InitWith({TRUE}, {1, 2}, {1, 3}, {FALSE})

NextAds ==
  \/ Initialize({TRUE}, {TRUE})
  \/ LoadData({ << SampleAdFeed >> })
  \/ AppFocused
  \/ ClassifyPage(SportsPages)
  \/ CheckReadyAdServe
  \/ Tick(Instants)

SpecAds == InitAds /\ [][NextAds]_vars

(***************************************************************************)
(* The rate limiter (C4, C5).                                              *)
(***************************************************************************)

\* the timestamps of the history that are less than `window` seconds old at t
RecentEntries(history, window, t) == { i \in 1..Len(history) : t - history[i] < window }

InHour == Cardinality(RecentEntries(state.userModel.adsShownHistory, 3600, now))
InDay == Cardinality(RecentEntries(state.userModel.adsShownHistory, 86400, now))

\* the history without the entries that are exactly `age` seconds old at t
WithoutAged(history, age, t) == SelectSeq(history, LAMBDA x : t - x # age)

\* C4: allowedToShowAdBasedOnHistory is false exactly when more than adsPerHour
\* timestamps of adsShownHistory are less than 3600 seconds old or more than
\* adsPerDay are less than 86400 seconds old: exactly the cap of entries in the
\* window is allowed, the cap plus one is refused, and an entry exactly 3600
\* (86400) seconds old does not count for the hour (the day).
C4_RateLimiter ==
  LET history == state.userModel.adsShownHistory
      hourCap == state.settings.adsPerHour
      dayCap == state.settings.adsPerDay
      allowed == allowedToShowAdBasedOnHistory(state, now)
  IN  /\ allowed = ~(InHour > hourCap \/ InDay > dayCap)
      /\ (InHour = hourCap /\ InDay <= dayCap) => allowed
      /\ (InHour = hourCap + 1) => ~allowed
      /\ (InDay = dayCap /\ InHour <= hourCap) => allowed
      /\ (InDay = dayCap + 1) => ~allowed
      /\ historyRespectsRollingTimeConstraint(history, hourWindow, hourCap, now)
           = historyRespectsRollingTimeConstraint(WithoutAged(history, 3600, now),
                                                  hourWindow, hourCap, now)
      /\ historyRespectsRollingTimeConstraint(history, dayWindow, dayCap, now)
           = historyRespectsRollingTimeConstraint(WithoutAged(history, 86400, now),
                                                  dayWindow, dayCap, now)

\* a cycle was refused with one ad more than the hour cap in the last hour, while
\* another ad of the history is exactly 3600 seconds old
C4_Witness ==
  /\ out.op = "checkReadyAdServe"
  /\ out.log = "Ad not served: not allowed based on history"
  /\ InHour = state.settings.adsPerHour + 1
  /\ \E i \in 1..Len(state.userModel.adsShownHistory) :
       now - state.userModel.adsShownHistory[i] = 3600

\* the timestamps of the history inside the window of `window` seconds that
\* starts at the i-th of them
InWindowFrom(history, window, i) ==
  { j \in 1..Len(history) : history[i] <= history[j] /\ history[j] < history[i] + window }

\* C5: with the caps fixed and no erasure, adsShownHistory never holds more
\* than adsPerHour timestamps inside any 3600-second window, nor more than
\* adsPerDay inside any 86400-second window.
C5_CapRespected ==
  LET history == state.userModel.adsShownHistory
  IN  \A i \in 1..Len(history) :
        /\ Cardinality(InWindowFrom(history, 3600, i)) <= state.settings.adsPerHour
        /\ Cardinality(InWindowFrom(history, 86400, i)) <= state.settings.adsPerDay

(***************************************************************************)
(* The two histories under every handler that writes them (classifyPage,   *)
(* checkReadyAdServe, both erasures) and the enable/disable switch, with   *)
(* caps so large that the rate limiter never refuses: the history of ads   *)
(* shown fills up and overflows.  The other handlers of the engine write   *)
(* neither history.                                                        *)
(***************************************************************************)
InitHist == InitWith({TRUE}, {BigCap}, {BigCap}, {FALSE})

NextHist ==
  \/ Initialize({TRUE}, {TRUE})
  \/ LoadData({ << SingleAdFeed >> })
  \/ AppFocused
  \/ ClassifyPage({ Page(1) })
  \/ CheckReadyAdServe
  \/ ChangeSetting
  \/ RemoveAllHistory
  \/ RemoveHistorySite

SpecHist == InitHist /\ [][NextHist]_vars

\* C1: pageScoreHistory holds at most 5 entries and adsShownHistory at most
\* 99, in every state.
C1_HistoriesBounded ==
  /\ Len(state.userModel.pageScoreHistory) <= maxRowsInPageScoreHistory
  /\ Len(state.userModel.adsShownHistory) <= maxRowsInAdsShownHistory

\* an ad was served onto a full history of ads shown, with the page scores full
C1_Witness ==
  /\ out.op = "checkReadyAdServe"
  /\ out.notify = "ad"
  /\ out.arg.shown = maxRowsInAdsShownHistory
  /\ Len(state.userModel.adsShownHistory) = maxRowsInAdsShownHistory
  /\ Len(state.userModel.pageScoreHistory) = maxRowsInPageScoreHistory

(***************************************************************************)
(* The ring buffer by itself: one list of the userModel under pushes of    *)
(* distinct items, for several capacities, starting empty or from a stored *)
(* list that may already be longer than the capacity.  `pushed` keeps the  *)
(* list the run started from followed by every item pushed since.          *)
(***************************************************************************)
RingKeys == {"pageScoreHistory", "adsShownHistory"}

RingCaps == {1, 2, 3, maxRowsInPageScoreHistory}

Iota(n) == [i \in 1..n |-> i]

InitRing ==
  /\ \E key \in RingKeys, cap \in RingCaps :
       \E n0 \in 0..(cap + MaxOver) :
         /\ state = [settings |-> InitialSettings(TRUE, BigCap, BigCap),
                     userModel |-> [EmptyUserModel EXCEPT ![key] = Iota(n0)]]
         /\ pushed = [key |-> key, cap |-> cap, start |-> n0, items |-> Iota(n0)]
  /\ Boot({FALSE})

Push ==
  /\ Len(pushed.items) <= pushed.cap + MaxOver
  /\ LET item == Len(pushed.items) + 1
     IN  /\ state' = appendToRingBufferUnderKey(state, pushed.key, item, pushed.cap)
         /\ pushed' = [pushed EXCEPT !.items = Append(@, item)]
         /\ out' = Out("push", item, "", "none", "")
  /\ UNCHANGED << now, uuidSeq, collectActivityId, timers, inflight, surveyGets,
                  testingP, initP, foregroundP, matrixData, priorData, sampleAdFeed,
                  lastSingleClassification, pendingLoad >>

NextRing == Push

SpecRing == InitRing /\ [][NextRing]_vars

\* C2: with ads enabled, after any number of pushes the list holds exactly the
\* last `capacity` items of everything stored and pushed so far (all of it
\* while that is shorter), in the order pushed; so one push onto a list longer
\* than the capacity drops size - capacity items from the front at once.
C2_KeepsLastCapacity ==
  out.op = "push" =>
    LET L == Len(pushed.items)
        k == Min(pushed.cap, L)
    IN  state.userModel[pushed.key] = SubSeq(pushed.items, (L - k) + 1, L)

\* one push onto a stored list two over its capacity: three items dropped at once
C2_Witness ==
  /\ out.op = "push"
  /\ pushed.start = pushed.cap + 2
  /\ Len(pushed.items) = pushed.start + 1
  /\ Len(state.userModel[pushed.key]) = pushed.cap
  /\ state.userModel[pushed.key][1] = 4

(***************************************************************************)
(* The setters of userModelState, each called on its own with small        *)
(* arguments, while the user switches ads on and off.                      *)
(***************************************************************************)
MaxFields == 4      \* keys of the userModel that hold a value at once

Url == "https://amazon.com/p"

ASurvey == [id |-> "s1", status |-> "available", status_at |-> NoTime]

BSurvey == [id |-> "s2", status |-> "available", status_at |-> NoTime]

\* every setter applied to s at time t: its name and what it returns
SetterCalls(s, t) ==
  { << "setUserModelValue", setUserModelValue(s, "available", "true") >>,
    << "appendPageScoreToHistoryAndRotate", appendPageScoreToHistoryAndRotate(s, OneHot(1)) >>,
    << "appendAdShownToAdHistory", appendAdShownToAdHistory(s, t) >>,
    << "recordAdUUIDSeen", recordAdUUIDSeen(s, AdA.uuid, 1) >>,
    << "flagSearchState", flagSearchState(s, Url, 1, t) >>,
    << "unFlagSearchState", unFlagSearchState(s, Url, t) >>,
    << "flagShoppingState", flagShoppingState(s, Url, t) >>,
    << "unFlagShoppingState", unFlagShoppingState(s) >>,
    << "flagUserBuyingSomething", flagUserBuyingSomething(s, Url, t) >>,
    << "setUserModelTimingMdl", setUserModelTimingMdl(s, << 1 >>) >>,
    << "setUrlActive", setUrlActive(s, Url) >>,
    << "setUrlClass", setUrlClass(s, Url, "sports", t) >>,
    << "setServedAd", setServedAd(s, AdA.uuid, "sports", t) >>,
    << "setLastUserActivity", setLastUserActivity(s, t) >>,
    << "setLocale", setLocale(s, "en") >>,
    << "setLastUserIdleStopTime", setLastUserIdleStopTime(s, t) >>,
    << "setUserModelError", setUserModelError(s, "oops", "caller") >>,
    << "setSSID", setSSID(s, "home") >>,
    << "setAdPlace", setAdPlace(s, "HOME") >>,
    << "setAdUUID", setAdUUID(s, 1) >>,
    << "setUserSurveyQueue", setUserSurveyQueue(s, << ASurvey >>) >>,
    << "appendToUserSurveyQueue", appendToUserSurveyQueue(s, ASurvey) >>,
    << "setReportingEventQueue", setReportingEventQueue(s, << BlankEvent("focus", t) >>) >>,
    << "appendToReportingEventQueue", appendToReportingEventQueue(s, BlankEvent("blur", t)) >>,
    << "flushReportingEventQueue", flushReportingEventQueue(s) >> }

\* the keys of the userModel that hold a value
Held(s) == { k \in DOMAIN EmptyUserModel : s.userModel[k] # EmptyUserModel[k] }

Setter ==
  /\ \E c \in SetterCalls(state, now) :
       /\ state' = c[2]
       /\ out' = Out("setter", c[1], "", "none", "")
  /\ Cardinality(Held(state')) <= MaxFields
  /\ \A k \in {"pageScoreHistory", "adsShownHistory", "userSurveyQueue",
                "reportingEventQueue"} : Len(state'.userModel[k]) <= 1
  /\ UNCHANGED << now, uuidSeq, collectActivityId, timers, inflight, surveyGets, Globals >>

InitSetters == InitWith(BOOLEAN, {1}, {1}, {FALSE})

NextSetters == Setter \/ ChangeSetting

SpecSetters == InitSetters /\ [][NextSetters]_vars

\* C3: while ads are disabled, every setter of the behavioural state returns
\* the state it was given.
C3_DisabledSettersNoOp ==
  [][(out'.op = "setter" /\ ~getAdEnabledValue(state)) => state' = state]_vars

\* a setter was called on a userModel that holds values, with ads disabled
C3_Witness ==
  /\ out.op = "setter"
  /\ ~getAdEnabledValue(state)
  /\ Cardinality(Held(state)) = MaxFields

(***************************************************************************)
(* The reporting pipeline: events recorded, the upload timer, the upload's *)
(* outcomes and the survey download that follows, while the clock moves.   *)
(***************************************************************************)
ReportInputs ==
  { [eventType |-> "focus", tabId |-> "1"],
    [eventType |-> "focus", tabId |-> "2"],
    [eventType |-> "notify", eventName |-> "NOTIFICATION_RESULT", result |-> "closed",
     uuid |-> "a1"],
    [eventType |-> "notify", eventName |-> "NOTIFICATION_CLICK"] }

ReportInstants == {0, 1, 2}

InitReport == InitWith({TRUE}, {1}, {1}, {FALSE})

NextReport ==
  \/ Initialize({TRUE}, {TRUE})
  \/ LoadData({ << SingleAdFeed >> })
  \/ GenerateAdReportingEvent(ReportInputs)
  \/ CollectActivity
  \/ UploadLogs
  \/ DownloadSurveys({ << >> })
  \/ Tick(ReportInstants)

SpecReport == InitReport /\ [][NextReport]_vars

\* two records that differ in nothing but stamp and correlation id
SameSignal(e1, e2) ==
  [e1 EXCEPT !.stamp = NoTime, !.uuid = NoUuid] = [e2 EXCEPT !.stamp = NoTime, !.uuid = NoUuid]

\* C6: reportingEventQueue never holds two adjacent entries that are identical
\* in every field except stamp.
C6_NoAdjacentDuplicates ==
  LET q == getReportingEventQueue(state)
  IN  \A i \in 1..(Len(q) - 1) : [q[i] EXCEPT !.stamp = q[i + 1].stamp] # q[i + 1]

\* the same signal recorded twice in a row, each with its own correlation id
C6_Witness ==
  LET q == getReportingEventQueue(state)
  IN  /\ Len(q) = 2
      /\ SameSignal(q[1], q[2])
      /\ q[1].uuid # NoUuid
      /\ q[2].uuid # NoUuid

\* C7 as stated: with ads enabled and the classifier ready, a signal that
\* repeats the last one recorded (the same but for its stamp, and for the
\* correlation id a timer fire may have given the record since) leaves the
\* queue unchanged, whatever happened between the two calls.
C7_RepeatNeverGrows ==
  [][(/\ out'.op = "generateAdReportingEvent"
      /\ ~noop(state)
      /\ LET built == eventMap(state, out'.arg, now)
             q == getReportingEventQueue(state)
         IN  Len(built) > 0 /\ Len(q) > 0 /\ SameSignal(Last(q), built[1]))
     => getReportingEventQueue(state') = getReportingEventQueue(state)]_vars

\* C7, amended: with ads enabled and the classifier ready, the second of two
\* calls with the same event kind and payload, made with no other handler
\* between them, returns the queue unchanged, its last entry being the record
\* of that signal; a call whose record differs from the queue's last entry in
\* anything but stamp (a correlation id that the entry was given since counts
\* as a difference) grows the queue by exactly that record.
C7_BackToBackSuppressed ==
  [][(out'.op = "generateAdReportingEvent" /\ ~noop(state)) =>
      LET built == eventMap(state, out'.arg, now)
          q == getReportingEventQueue(state)
          after == getReportingEventQueue(state')
      IN  /\ (out.op = "generateAdReportingEvent" /\ out.arg = out'.arg) =>
                /\ after = q
                /\ Len(built) > 0 => (Len(q) > 0 /\ SameSignal(Last(q), built[1]))
          /\ (/\ Len(built) > 0 /\ Len(q) > 0
              /\ [Last(q) EXCEPT !.stamp = built[1].stamp] # built[1]) =>
                after = Append(q, built[1])]_vars

\* the second of two identical calls, made after the clock moved, was suppressed
C7_Witness ==
  LET built == eventMap(state, out.arg, now)
      q == getReportingEventQueue(state)
  IN  /\ out.op = "generateAdReportingEvent"
      /\ out.log = ""
      /\ ~noop(state)
      /\ Len(built) > 0
      /\ Len(q) = 1
      /\ SameSignal(q[1], built[1])
      /\ q[1].uuid = NoUuid
      /\ q[1].stamp < now

(***************************************************************************)
(* The profile's adUUID under the handlers that generate it, erase it, or  *)
(* run beside it: initialize, confirmAdUUIDIfAdEnabled, event recording,   *)
(* checkReadyAdServe (which hands out a uuid for a survey), the upload and *)
(* the survey download, both erasures and the enable/disable switch.       *)
(***************************************************************************)
InitIdentity == InitWith({TRUE}, {1}, {1}, {FALSE})

NextIdentity ==
  \/ Initialize({TRUE}, {TRUE})
  \/ LoadData({ << SingleAdFeed >> })
  \/ AppFocused
  \/ ChangeSetting
  \/ ConfirmAdUUIDIfAdEnabled
  \/ GenerateAdReportingEvent({ [eventType |-> "focus", tabId |-> "1"] })
  \/ CheckReadyAdServe
  \/ CollectActivity
  \/ UploadLogs
  \/ DownloadSurveys({ << ASurvey >> })
  \/ RemoveAllHistory
  \/ RemoveHistorySite

SpecIdentity == InitIdentity /\ [][NextIdentity]_vars

Erasures == {"removeAllHistory", "removeHistorySite"}

\* C8: once the profile has an adUUID, no step changes it but an erasure of
\* the whole history.
C8_AdUUIDStable ==
  [][(getAdUUID(state) # NoUuid /\ getAdUUID(state') # getAdUUID(state))
       => (out'.op \in Erasures /\ now' = now)]_vars

\* confirmAdUUIDIfAdEnabled ran with ads enabled on a profile that has the first
\* uuid generated, after other uuids were handed out
C8_Witness ==
  /\ out.op = "confirmAdUUIDIfAdEnabled"
  /\ getAdEnabledValue(state)
  /\ getAdUUID(state) = 1
  /\ uuidSeq > 1

\* C9: removeAllHistory leaves every key of the userModel unset, ads enabled
\* or not, but for adUUID: with ads enabled that is a value the profile did
\* not have before, with ads disabled it is unset.
C9_EraseClearsAll ==
  [][out'.op = "removeAllHistory" =>
       /\ [state'.userModel EXCEPT !.adUUID = NoUuid] = EmptyUserModel
       /\ state'.settings = state.settings
       /\ IF getAdEnabledValue(state)
          THEN getAdUUID(state') \notin {NoUuid, getAdUUID(state)}
          ELSE getAdUUID(state') = NoUuid]_vars

\* an erasure with ads enabled gave the profile its second uuid
C9_Witness ==
  /\ out.op = "removeAllHistory"
  /\ getAdEnabledValue(state)
  /\ getAdUUID(state) > 1

(***************************************************************************)
(* The ad-serving cycle with surveys: a cap of one ad, a catalog that may  *)
(* be missing, pages of a category with ads and of one without, and the    *)
(* upload that brings a survey.                                            *)
(***************************************************************************)
InitServe == InitWith({TRUE}, {1}, {1}, {FALSE})

NextServe ==
  \/ Initialize({TRUE}, {TRUE})
  \/ LoadData({ << >>, << SampleAdFeed >> })
  \/ AppFocused
  \/ ClassifyPage({ Page(1), Page(3) })
  \/ CheckReadyAdServe
  \/ CollectActivity
  \/ UploadLogs
  \/ DownloadSurveys({ << ASurvey >> })

SpecServe == InitServe /\ [][NextServe]_vars

HasAvailableSurvey(s) ==
  \E i \in 1..Len(getUserSurveyQueue(s)) : getUserSurveyQueue(s)[i].status = "available"

\* the index of the category the page scores point at, 0 for none
WinnerIndex(s) == vectorIndexOfMax(deriveCategoryScores(getPageScoreHistory(s)))

\* the category or one of its ancestors is a key of the catalog
InCatalog(s) ==
  LET hierarchy == CatNames[WinnerIndex(s)]
  IN  \E n \in 1..Len(hierarchy) :
        SubSeq(hierarchy, 1, n) \in DOMAIN sampleAdFeed[1].categories

\* C10: checkReadyAdServe stops at the first of its preconditions that fails,
\* in the order foreground, rate limiter, available survey, catalog, category
\* found, category in the catalog: out of the foreground, or refused by the
\* rate limiter, it surfaces nothing and leaves the state alone.
C10_PreconditionOrder ==
  [][(out'.op = "checkReadyAdServe" /\ ~noop(state)) =>
       IF ~foregroundP
       THEN /\ out'.log = "Ad not served: not in foreground"
            /\ out'.notify = "none" /\ state' = state
       ELSE IF ~allowedToShowAdBasedOnHistory(state, now)
       THEN /\ out'.log = "Ad not served: not allowed based on history"
            /\ out'.notify = "none" /\ state' = state
       ELSE IF HasAvailableSurvey(state)
       THEN /\ out'.log = "SURVEY_SHOWN" /\ out'.notify = "survey"
            /\ state'.userModel.adsShownHistory = state.userModel.adsShownHistory
       ELSE IF Len(sampleAdFeed) = 0
       THEN /\ out'.log = "Ad not served: no ad catalog"
            /\ out'.notify = "none" /\ state' = state
       ELSE IF WinnerIndex(state) = 0
       THEN /\ out'.log = "Ad not served: no category at offset indexOfMax"
            /\ out'.notify = "none" /\ state' = state
       ELSE IF ~InCatalog(state)
       THEN /\ out'.log = "Ad not served: no ads for category"
            /\ out'.notify = "none" /\ state' = state
       ELSE /\ out'.notify # "survey"
            /\ out'.log \notin {"Ad not served: not in foreground",
                                "Ad not served: not allowed based on history",
                                "SURVEY_SHOWN", "Ad not served: no ad catalog",
                                "Ad not served: no category at offset indexOfMax",
                                "Ad not served: no ads for category"}]_vars

\* the rate limiter refused while a survey was available and the catalog had
\* ads for the category
C10_Witness ==
  /\ out.op = "checkReadyAdServe"
  /\ out.log = "Ad not served: not allowed based on history"
  /\ foregroundP
  /\ HasAvailableSurvey(state)
  /\ Len(sampleAdFeed) > 0
  /\ WinnerIndex(state) # 0
  /\ InCatalog(state)

(***************************************************************************)
(* Surveys in the ad-serving cycle: the upload brings two available        *)
(* surveys, the catalog may be missing, and a classified page makes an ad  *)
(* of the catalog eligible beside them.                                    *)
(***************************************************************************)
\* verification mode (testingP) is set or not as the module loads
InitSurvey == InitWith({TRUE}, {1}, {1}, BOOLEAN)

NextSurvey ==
  \/ Initialize({TRUE}, {TRUE})
  \/ LoadData({ << >>, << SingleAdFeed >> })
  \/ AppFocused
  \/ ClassifyPage({ Page(1) })
  \/ CheckReadyAdServeTracked
  \/ CollectActivity
  \/ UploadLogs
  \/ DownloadSurveys({ << ASurvey, BSurvey >> })

SpecSurvey == InitSurvey /\ [][NextSurvey]_vars

\* C11: in the foreground, with the rate limiter allowing and an available
\* survey in the queue, a checkReadyAdServe cycle of the running engine sets
\* the first available survey to display with a status_at stamp, surfaces it,
\* and changes nothing else: no other survey, not adsShownHistory, not the
\* seen-set, whether there is a catalog or not.
C11_SurveyPreempts ==
  [][(/\ out'.op = "checkReadyAdServe"
      /\ ~noop(state)
      /\ foregroundP
      /\ allowedToShowAdBasedOnHistory(state, now)
      /\ HasAvailableSurvey(state))
     => LET q == getUserSurveyQueue(state)
            after == getUserSurveyQueue(state')
            first == CHOOSE i \in 1..Len(q) :
                       /\ q[i].status = "available"
                       /\ \A j \in 1..(i - 1) : q[j].status # "available"
        IN  /\ out'.notify = "survey"
            /\ out'.id = q[first].id
            /\ Len(after) = Len(q)
            /\ after[first] = [q[first] EXCEPT !.status = "display", !.status_at = now]
            /\ \A j \in 1..Len(q) : j # first => after[j] = q[j]
            /\ state' = [state EXCEPT !.userModel.userSurveyQueue = after]]_vars

\* the second survey of the queue went to display after the first, with no
\* catalog loaded
C11_Witness ==
  LET q == getUserSurveyQueue(state)
  IN  /\ out.op = "checkReadyAdServe"
      /\ out.notify = "survey"
      /\ out.id = "s2"
      /\ Len(sampleAdFeed) = 0
      /\ Len(q) = 2
      /\ q[1].status = "display"
      /\ q[2].status = "display"

(***************************************************************************)
(* The choice of the catalog bucket: pages of three categories, and        *)
(* catalogs that hold a category, an ancestor of it, or neither.           *)
(***************************************************************************)
InitHier == InitWith({TRUE}, {1}, {1}, {FALSE})

NextHier ==
  \/ Initialize({TRUE}, {TRUE})
  \/ LoadData({ << HierFeed >>, << SingleAdFeed >> })
  \/ AppFocused
  \/ ClassifyPage({ Page(1), Page(2), Page(3) })
  \/ CheckReadyAdServe

SpecHier == InitHier /\ [][NextHier]_vars

\* the lengths of the prefixes of the winning category that are keys of the catalog
KeyedPrefixes(s) ==
  LET hierarchy == CatNames[WinnerIndex(s)]
  IN  { n \in 1..Len(hierarchy) :
          SubSeq(hierarchy, 1, n) \in DOMAIN sampleAdFeed[1].categories }

\* C12: when ad selection gets to look up the winning category s1-...-sn, it
\* takes the bucket of the longest prefix s1-...-sk that is a key of the
\* catalog (an ad served is an ad of that bucket), and serves nothing when no
\* prefix is a key.
C12_LongestPrefix ==
  [][(/\ out'.op = "checkReadyAdServe"
      /\ ~noop(state)
      /\ foregroundP
      /\ allowedToShowAdBasedOnHistory(state, now)
      /\ ~HasAvailableSurvey(state)
      /\ Len(sampleAdFeed) > 0
      /\ WinnerIndex(state) # 0)
     => IF KeyedPrefixes(state) = {}
        THEN /\ out'.log = "Ad not served: no ads for category"
             /\ out'.notify = "none"
             /\ state' = state
        ELSE LET hierarchy == CatNames[WinnerIndex(state)]
                 k == CHOOSE n \in KeyedPrefixes(state) :
                        \A other \in KeyedPrefixes(state) : other <= n
                 bucket == sampleAdFeed[1].categories[SubSeq(hierarchy, 1, k)]
             IN  /\ out'.log # "Ad not served: no ads for category"
                 /\ out'.notify = "ad" =>
                       \E i \in 1..Len(bucket) : bucket[i].uuid = out'.id]_vars

\* a page of sports-rugby-worldcup got the ad of the bucket sports, the only
\* key of the catalog
C12_Witness ==
  /\ out.op = "checkReadyAdServe"
  /\ out.notify = "ad"
  /\ out.id = AdA.uuid
  /\ sampleAdFeed = << SingleAdFeed >>
  /\ CatNames[WinnerIndex(state)] = << "sports", "rugby", "worldcup" >>

(***************************************************************************)
(* The round robin over one bucket: pages of one category, a catalog whose *)
(* bucket for it holds two ads or none, a cap that lets four ads through,  *)
(* and the outcomes of the notifications as the user produces them.        *)
(***************************************************************************)
RobinCap == 3

Outcome(result, uuid) ==
  [eventType |-> "notify", eventName |-> "NOTIFICATION_RESULT", result |-> result,
   uuid |-> uuid]

\* the seen-set is part of the profile and marks whatever uuid an outcome
\* carries: AdC's too, which the catalog of this run holds incomplete
RobinOutcomes == { Outcome("clicked", AdA.uuid), Outcome("closed", AdB.uuid),
                   Outcome("ignored", AdA.uuid), Outcome("clicked", AdC.uuid) }

InitRobin == InitWith({TRUE}, {RobinCap}, {RobinCap}, {FALSE})

NextRobin ==
  \/ Initialize({TRUE}, {TRUE})
  \/ LoadData({ << SampleAdFeed >>, << EmptyBucketFeed >> })
  \/ AppFocused
  \/ ClassifyPage({ Page(1), Page(2) })
  \/ CheckReadyAdServeTracked
  \/ GenerateAdReportingEvent(RobinOutcomes)

SpecRobin == InitRobin /\ [][NextRobin]_vars

\* the bucket ad selection matches for the winning category
MatchedBucket(s) ==
  LET hierarchy == CatNames[WinnerIndex(s)]
      k == CHOOSE n \in KeyedPrefixes(s) : \A other \in KeyedPrefixes(s) : other <= n
  IN  sampleAdFeed[1].categories[SubSeq(hierarchy, 1, k)]

\* ad selection gets as far as a bucket of the catalog
ReachesBucket(s) ==
  /\ ~noop(s)
  /\ foregroundP
  /\ allowedToShowAdBasedOnHistory(s, now)
  /\ ~HasAvailableSurvey(s)
  /\ Len(sampleAdFeed) > 0
  /\ WinnerIndex(s) # 0
  /\ KeyedPrefixes(s) # {}

Marked(s, uuid) ==
  uuid \in DOMAIN s.userModel.adsUUIDSeen /\ s.userModel.adsUUIDSeen[uuid] = 1

\* C13: an ad served is an ad of the matched bucket that was not marked seen
\* when it was chosen, and the seen-set is as it was; unless every ad of the
\* bucket was marked seen, and then every ad of the bucket is unmarked and
\* the ad served is any ad of the bucket.  An empty bucket serves nothing.
C13_UnseenFirst ==
  [][(out'.op = "checkReadyAdServe" /\ ReachesBucket(state)) =>
       LET bucket == MatchedBucket(state)
           ids == { bucket[i].uuid : i \in 1..Len(bucket) }
           unseen == { u \in ids : ~Marked(state, u) }
       IN  /\ Len(bucket) = 0 =>
                 /\ out'.notify = "none"
                 /\ out'.log = "Ad not served: no ad for winnerOverTime"
                 /\ state' = state
           /\ out'.notify = "ad" =>
                 /\ out'.id \in ids
                 /\ IF unseen # {}
                    THEN /\ out'.id \in unseen
                         /\ state'.userModel.adsUUIDSeen = state.userModel.adsUUIDSeen
                    ELSE \A u \in ids : ~Marked(state', u)]_vars

\* with both ads of the bucket marked seen, an ad was served and both are unmarked
C13_Witness ==
  /\ out.op = "checkReadyAdServe"
  /\ out.notify = "ad"
  /\ DOMAIN state.userModel.adsUUIDSeen = {AdA.uuid, AdB.uuid}
  /\ ~Marked(state, AdA.uuid)
  /\ ~Marked(state, AdB.uuid)

\* C14 as stated: no ad of the bucket is shown a second time before every ad
\* of the bucket has been shown once, whatever the outcomes of the
\* notifications were.
C14_NoRepeatBeforeAllShown ==
  LET shown == pushed.items
  IN  \A j \in 1..Len(shown) : \A i \in 1..(j - 1) :
        shown[i] = shown[j] =>
          \A n \in 1..Len(MatchedBucket(state)) :
            \E k \in 1..(j - 1) : shown[k] = MatchedBucket(state)[n].uuid

\* C14, amended: an outcome of clicked or closed marks its ad seen and an
\* outcome of ignored marks nothing; an ad that is marked seen is not shown
\* again until every ad of the bucket is marked seen.
C14_MarkedNotRepeated ==
  [][/\ (out'.op = "checkReadyAdServe" /\ ReachesBucket(state) /\ out'.notify = "ad"
          /\ Marked(state, out'.id))
        => \A n \in 1..Len(MatchedBucket(state)) :
             Marked(state, MatchedBucket(state)[n].uuid)
     /\ (out'.op = "generateAdReportingEvent" /\ ~noop(state)) =>
          IF out'.arg.result \in {"clicked", "closed"}
          THEN /\ Marked(state', out'.arg.uuid)
               /\ \A u \in DOMAIN state.userModel.adsUUIDSeen :
                    u # out'.arg.uuid => Marked(state', u) = Marked(state, u)
          ELSE state'.userModel.adsUUIDSeen = state.userModel.adsUUIDSeen]_vars

\* the first ad shown was clicked, and the cycle after it showed the other one
C14_Witness ==
  /\ out.op = "checkReadyAdServe"
  /\ out.notify = "ad"
  /\ out.id = AdB.uuid
  /\ pushed.items = << AdA.uuid, AdB.uuid >>
  /\ Marked(state, AdA.uuid)


(***************************************************************************)
(* The upload timer under the enable/disable switch: initialize and        *)
(* confirmAdUUIDIfAdEnabled arm and cancel it, collectActivity is its      *)
(* fire, uploadLogs the callback of the attempt, while events are recorded *)
(* and the history is erased.                                              *)
(***************************************************************************)
MaxOverlap == 2     \* upload attempts awaiting their callback, in SpecTimer

InitTimer == InitWith({TRUE}, {1}, {1}, {FALSE})

NextTimer ==
  \/ Initialize({TRUE}, {TRUE})
  \/ LoadData({ << >> })
  \/ ChangeSetting
  \/ ConfirmAdUUIDIfAdEnabled
  \/ GenerateAdReportingEvent({ [eventType |-> "focus", tabId |-> "1"] })
  \/ CollectActivityUpTo(MaxOverlap)
  \/ UploadLogs
  \/ DownloadSurveys({ << >> })
  \/ RemoveAllHistory

SpecTimer == InitTimer /\ [][NextTimer]_vars

\* C15: at most one upload timer is armed and not yet fired at any time.
C15_SingleTimer == Cardinality(timers) <= 1

\* C16: at most one report upload is in flight at a time: while a request
\* issued by collectActivity awaits its callback, no second request is issued.
C16_SingleUpload ==
  Cardinality({ i \in 1..Len(inflight) : inflight[i].net }) <= 1

\* the handlers that run collectActivityAsNeeded
Confirmers == {"confirmAdUUIDIfAdEnabled", "removeAllHistory"}

\* C17: when collectActivityAsNeeded runs with ads disabled, no upload timer
\* is pending afterwards and the handle is cleared; while ads stay disabled no
\* step arms a timer, the callback of an upload (uploadLogs) included.
C17_DisableCancels ==
  [][/\ (out'.op \in Confirmers /\ ~getAdEnabledValue(state))
          => (timers' = {} /\ collectActivityId' = 0)
     /\ (~getAdEnabledValue(state) /\ ~getAdEnabledValue(state'))
          => timers' \subseteq timers]_vars

(***************************************************************************)
(* The outcome of an upload, under SpecReport: the snapshot the attempt    *)
(* carried, the queue as the callback finds it, the timer it arms.         *)
(***************************************************************************)

\* the stamp of the last event of the snapshot an attempt uploaded
Watermark(attempt) == Last(attempt.events).stamp

NewerThan(q, stamp) == SelectSeq(q, LAMBDA e : e.stamp > stamp)

\* the step armed one timer at `retryIn`, and the handle names it
ArmedAt(retryIn) ==
  \E tm \in timers' \ timers :
    /\ timers' = timers \cup {tm}
    /\ tm.retryIn = retryIn
    /\ collectActivityId' = tm.id

\* C18: after a successful upload the next timer is armed at the day interval
\* and the queue holds exactly its events newer than the watermark (the stamp
\* of the last event of the uploaded snapshot), in order.
C18_SuccessPrunes ==
  [][(/\ out'.op = "uploadLogs" /\ now' = now /\ ~noop(state)
      /\ out'.arg.attempt.net /\ ~out'.arg.outcome.err)
     => /\ ArmedAt(oneDay)
        /\ getReportingEventQueue(state') =
             NewerThan(getReportingEventQueue(state), Watermark(out'.arg.attempt))]_vars

\* a successful upload pruned the snapshot and kept an event recorded after it
C18_Witness ==
  /\ out.op = "uploadLogs"
  /\ out.arg.attempt.net
  /\ ~out.arg.outcome.err
  /\ Len(getReportingEventQueue(state)) = 1
  /\ getReportingEventQueue(state)[1].stamp > Watermark(out.arg.attempt)
  /\ \E tm \in timers : tm.id = collectActivityId /\ tm.retryIn = oneDay

Available(surveys) == SelectSeq(surveys, LAMBDA survey : survey.status = "available")

\* a survey of the queue has this id and a status other than available
Interacted(s, id) ==
  \E i \in 1..Len(getUserSurveyQueue(s)) :
    /\ getUserSurveyQueue(s)[i].id = id
    /\ getUserSurveyQueue(s)[i].status # "available"

\* C20: after downloadSurveys with ads enabled and the classifier ready, the
\* survey queue holds exactly the downloaded surveys whose status is
\* available; in verification mode, exactly those of them whose id is not the
\* id of a queued survey with a status other than available.
C20_QueueAfterDownload ==
  [][(out'.op = "downloadSurveys" /\ ~noop(state))
     => getUserSurveyQueue(state') =
          IF testingP
          THEN SelectSeq(Available(out'.arg), LAMBDA survey : ~Interacted(state, survey.id))
          ELSE Available(out'.arg)]_vars

(***************************************************************************)
(* The timing model, the shopping and search flags, the locale.  A handler *)
(* of this group returns Ret(state, error): error names the exception the  *)
(* call ends in, "" when it returns.                                       *)
(***************************************************************************)
MaxLetters == 2     \* letters the timing model has been updated with

Ret(s, error) == [state |-> s, error |-> error]

\* stateToLetterStd: topicVariance(state) is computed, then
\* userModelState.getSearchState() is called without the state, and
\* validateState(undefined) fails its assert
stateToLetterStd(s) == [letter |-> "", error |-> "AssertionError"]

\* elph.initOnlineELPH(), elph.updateOnlineELPH(letter, mdl): the model is
\* kept as the letters it has been updated with
initOnlineELPH == << >>

updateOnlineELPH(letter, mdl) == Append(mdl, letter)

\* a variant that reads the symbol before it looks at the gate
updateTimingModelUngated(s, a) ==
  IF ~a.given THEN Ret(s, "TypeError")
  ELSE IF noop(s) THEN Ret(s, "")
  ELSE IF a.symbol = "" THEN Ret(s, stateToLetterStd(s).error)
  ELSE Ret(setUserModelTimingMdl(s, updateOnlineELPH(a.symbol, getUserModelTimingMdl(s))), "")

\* a: [given, symbol]; without an argument special is null, and null has no
\* length
updateTimingModel(s, a) ==
  IF noop(s) THEN Ret(s, "")
  ELSE IF ~a.given THEN Ret(s, "TypeError")
  ELSE
  LET std == IF a.symbol = "" THEN stateToLetterStd(s)
             ELSE [letter |-> a.symbol, error |-> ""]
      stored == getUserModelTimingMdl(s)
      mdl == IF Len(stored) = 0 THEN initOnlineELPH ELSE stored
  IN  IF std.error # "" THEN Ret(s, std.error)
      ELSE Ret(setUserModelTimingMdl(s, updateOnlineELPH(std.letter, mdl)), "")

\* urlUtil.getHostname and the search providers' prefixes, as far as the
\* inputs of the model go
getHostname(url) == IF url = "https://amazon.com/p" THEN "amazon.com" ELSE "other"

isSearch(url) == url = "https://search.example/?q="

testShoppingData(s, url, t) ==
  IF noop(s) THEN s
  ELSE LET lastShopState == getSearchState(s)
       IN  IF getHostname(url) = "amazon.com" THEN flagShoppingState(s, url, t)
           ELSE IF truthy(lastShopState) THEN unFlagShoppingState(s)
           ELSE s

testSearchState(s, url, t) ==
  IF noop(s) THEN s
  ELSE LET lastSearchState == getSearchState(s)
       IN  IF isSearch(url) THEN flagSearchState(s, url, 1, t)
           ELSE IF truthy(lastSearchState) THEN unFlagSearchState(s, url, t)
           ELSE s

\* um.setLocaleSync throws for a locale it does not know; the handler logs it
Locales == {"en", "fr"}

changeLocale(s, locale) ==
  IF noop(s) THEN [state |-> s, log |-> ""]
  ELSE IF locale \notin Locales THEN [state |-> s, log |-> "Locale error"]
  ELSE [state |-> setLocale(s, locale), log |-> ""]

\* an exception a handler ends in is left in log
UpdateTimingModel(inputs) ==
  \E a \in inputs :
    LET res == updateTimingModel(state, a)
    IN  /\ Len(getUserModelTimingMdl(res.state)) <= MaxLetters
        /\ state' = res.state
        /\ out' = Out("updateTimingModel", a, res.error, "none", "")
        /\ UNCHANGED << now, uuidSeq, collectActivityId, timers, inflight, surveyGets,
                        Globals >>

TestShoppingData(urls) ==
  \E url \in urls :
    /\ state' = testShoppingData(state, url, now)
    /\ out' = Out("testShoppingData", url, "", "none", "")
    /\ UNCHANGED << now, uuidSeq, collectActivityId, timers, inflight, surveyGets,
                    Globals >>

TestSearchState(urls) ==
  \E url \in urls :
    /\ state' = testSearchState(state, url, now)
    /\ out' = Out("testSearchState", url, "", "none", "")
    /\ UNCHANGED << now, uuidSeq, collectActivityId, timers, inflight, surveyGets,
                    Globals >>

ChangeLocale(locales) ==
  \E locale \in locales :
    LET res == changeLocale(state, locale)
    IN  /\ state' = res.state
        /\ out' = Out("changeLocale", locale, res.log, "none", "")
        /\ UNCHANGED << now, uuidSeq, collectActivityId, timers, inflight, surveyGets,
                        Globals >>

\* the calls the gate is tried with: a symbol, an empty symbol, no symbol
SymbolArgs == { [given |-> TRUE, symbol |-> "a"], [given |-> TRUE, symbol |-> ""],
                [given |-> FALSE, symbol |-> ""] }

GateUrls == { Url, "" }

InitGate == InitWith({TRUE}, {1}, {1}, {FALSE})

NextGate ==
  \/ Initialize({TRUE}, {TRUE})
  \/ LoadData({ << SingleAdFeed >> })
  \/ ChangeSetting
  \/ GenerateAdReportingEvent({ [eventType |-> "focus", tabId |-> "1"] })
  \/ UpdateTimingModel(SymbolArgs)
  \/ TestShoppingData(GateUrls)
  \/ TestSearchState(GateUrls)
  \/ ClassifyPage({ Page(1) })
  \/ CheckReadyAdServe
  \/ ChangeLocale({ "fr", "xx" })
  \/ CollectActivity
  \/ UploadLogs
  \/ DownloadSurveys({ << >> })

SpecGate == InitGate /\ [][NextGate]_vars

\* the handlers that open with `if (noop(state)) return state`
GatedOps == {"generateAdReportingEvent", "updateTimingModel", "testShoppingData",
             "testSearchState", "classifyPage", "checkReadyAdServe", "changeLocale",
             "collectActivity", "uploadLogs", "downloadSurveys"}

\* C21: while the classifier's matrices are not loaded or ads are disabled,
\* each gated handler returns the state unchanged, surfaces no notification,
\* issues no request (no upload, no survey download, no timer), hands out no
\* uuid and ends in no exception and no log line, whatever its argument.
C21_GateIsSilent ==
  [][(out'.op \in GatedOps /\ noop(state))
     => /\ state' = state
        /\ out'.notify = "none"
        /\ out'.log = ""
        /\ uuidSeq' = uuidSeq
        /\ Len(inflight') <= Len(inflight)
        /\ surveyGets' <= surveyGets
        /\ timers' \subseteq timers
        /\ lastSingleClassification' = lastSingleClassification]_vars

\* updateTimingModel was called without a symbol on a profile that holds
\* data, ads disabled, and returned
C21_Witness ==
  /\ out.op = "updateTimingModel"
  /\ ~out.arg.given
  /\ matrixData
  /\ ~getAdEnabledValue(state)
  /\ Len(getReportingEventQueue(state)) > 0
  /\ out.log = ""

\* C24: with ads enabled and the classifier ready, every updateTimingModel
\* call (with a symbol, with an empty symbol, without a symbol) ends with a
\* timing model stored in the state and never in an error.
C24_TimingModelStored ==
  [][(out'.op = "updateTimingModel" /\ ~noop(state))
     => /\ out'.log = ""
        /\ getUserModelTimingMdl(state') # << >>]_vars

\* C22: a checkReadyAdServe cycle appends exactly one timestamp, the current
\* time, to adsShownHistory if and only if it surfaced an ad; every not-served
\* outcome and the display of a survey leave adsShownHistory unchanged.
C22_ShownIffServed ==
  [][out'.op = "checkReadyAdServe" =>
       LET history == state.userModel.adsShownHistory
           after == state'.userModel.adsShownHistory
       IN  /\ out'.notify = "ad" <=> after # history
           /\ out'.notify = "ad" => after = Append(history, now)
           /\ out'.notify = "ad" <=> out'.log = "AD_SHOWN"]_vars

\* an ad was served after a survey had been displayed: the history holds the
\* one timestamp of the ad
C22_Witness ==
  /\ out.op = "checkReadyAdServe"
  /\ out.notify = "ad"
  /\ state.userModel.adsShownHistory = << now >>
  /\ \E i \in 1..Len(getUserSurveyQueue(state)) :
       getUserSurveyQueue(state)[i].status = "display"

\* the taxonomy of notification outcomes
Taxonomy == [clicked |-> "clicked", closed |-> "dismissed", ignored |-> "timeout"]

\* C23: with ads enabled and the classifier ready, recording the outcome of a
\* notification marks the notification's id seen when the outcome is clicked
\* or closed and leaves the seen-set unchanged when it is ignored; the event
\* recorded carries the outcome's translation (clicked, dismissed, timeout) and
\* the notification's id.
C23_OutcomeMarksSeen ==
  [][(/\ out'.op = "generateAdReportingEvent" /\ ~noop(state)
      /\ out'.arg.eventType = "notify" /\ out'.arg.eventName = "NOTIFICATION_RESULT")
     => LET a == out'.arg
            seen == getAdUUIDSeen(state)
            after == getAdUUIDSeen(state')
            q == getReportingEventQueue(state')
        IN  /\ a.result \in {"clicked", "closed"} =>
                 /\ a.uuid \in DOMAIN after /\ after[a.uuid] = 1
                 /\ \A u \in DOMAIN seen : u # a.uuid => (u \in DOMAIN after /\ after[u] = seen[u])
            /\ a.result = "ignored" => after = seen
            /\ out'.log = "Event logged" =>
                 /\ q = Append(getReportingEventQueue(state), Last(q))
                 /\ Last(q).type = "notify"
                 /\ Last(q).notificationType = Taxonomy[a.result]
                 /\ Last(q).notificationId = a.uuid]_vars

\* an ignored notification of ad A was recorded as a timeout after a closed
\* one of ad B: B is marked seen, A is not
C23_Witness ==
  /\ out.op = "generateAdReportingEvent"
  /\ out.arg.result = "ignored"
  /\ out.log = "Event logged"
  /\ Last(getReportingEventQueue(state)).notificationType = "timeout"
  /\ Marked(state, AdB.uuid)
  /\ ~Marked(state, AdA.uuid)

\* C25: the upload pipeline removes no event from the queue unless the
\* event was part of the snapshot of an upload that the collector
\* acknowledged or rejected with status 400: what uploadLogs removes is a
\* prefix of the queue that is also a prefix of the snapshot, and an event
\* recorded after the snapshot was taken is still queued after the prune,
\* also when its stamp is the watermark's.
C25_OnlyUploadedPruned ==
  [][(out'.op = "uploadLogs" /\ now' = now) =>
       LET q == getReportingEventQueue(state)
           after == getReportingEventQueue(state')
           snapshot == out'.arg.attempt.events
       IN  \E k \in 0..Len(snapshot) :
             /\ k <= Len(q)
             /\ after = SubSeq(q, k + 1, Len(q))
             /\ SubSeq(q, 1, k) = SubSeq(snapshot, 1, k)
             /\ k > 0 => out'.arg.outcome.status \in {200, 400}]_vars

C27_DisplayedOnce ==
  testingP =>
    \A i, j \in 1..Len(pushed.items) :
      (pushed.items[i] \in {ASurvey.id, BSurvey.id} /\ pushed.items[i] = pushed.items[j])
        => i = j

(***************************************************************************)
(* The reporting pipeline with ads enabled throughout, where whatever is   *)
(* pending gets its turn: the loading of the classifier's data scheduled   *)
(* by initialize runs, an upload gets its callback, a survey download gets *)
(* its callback.                                                           *)
(***************************************************************************)
SpecRearm ==
  /\ InitReport
  /\ [][NextReport]_vars
  /\ WF_vars(LoadData({ << SingleAdFeed >> }))
  /\ WF_vars(UploadLogs)
  /\ WF_vars(DownloadSurveys({ << >> }))

C29_UploadHasAdUUID ==
  \A i \in 1..Len(inflight) : inflight[i].net => inflight[i].path # NoUuid

=============================================================================
